---- MODULE Spec2Model ----
(***************************************************************************)
(* A model of the character encoder of vesta (vesta/chars.py): encode,     *)
(* encode_row, encode_text, _format_row and pprint, with Python's          *)
(* str.upper, int(), str.splitlines, list slicing and list repetition      *)
(* modelled by what they do on the characters of the model alphabet; and   *)
(* of the message operations of the clients (vesta/clients.py).            *)
(*                                                                         *)
(* A string is a sequence of one-character strings.  Python indexes from   *)
(* 0 and TLA+ from 1: the Python expression s[i] is At(s, i) = s[i + 1].   *)
(* The character "eszett" stands for U+00DF, whose uppercase form is the   *)
(* two characters "SS"; "deg" stands for U+00B0; "LF" for a line feed.     *)
(***************************************************************************)
EXTENDS Integers, Sequences, FiniteSets, TLC

VARIABLES s, align, valign, max_rows, margin, fill, breaks, op, result,
          argument, api_key, requests, calls, response, remaining, cut, pc, grid,
          heap, touched

\* the object handed to pprint or to a client as its message
dataVars == <<argument>>

\* the Local API key header of a LocalClient, the HTTP requests sent so
\* far, the number of calls made and the answer to the last request
clientVars == <<api_key, requests, calls, response>>

\* the wrapping loop of encode_text on one encoded line: what is left of
\* the line, the rows cut from it so far, and where the loop stands
wrapVars == <<remaining, cut, pc>>

\* the list objects of a returned grid: the object each row refers to, the
\* cells of each object, and the row a caller last wrote to
gridVars == <<grid, heap, touched>>

vars == <<s, align, valign, max_rows, margin, fill, breaks, op, result,
          argument, api_key, requests, calls, response, remaining, cut, pc, grid,
          heap, touched>>

(***************************************************************************)
(* Bounds of the model.                                                    *)
(***************************************************************************)
MaxLen == 4
MaxTextLen == 3
MaxCalls == 3
MaxRows == 6

(***************************************************************************)
(* chars.py: constants.                                                    *)
(***************************************************************************)
PRINTABLE ==
  << " ", "A", "B", "C", "D", "E", "F", "G", "H", "I", "J", "K", "L", "M",
     "N", "O", "P", "Q", "R", "S", "T", "U", "V", "W", "X", "Y", "Z",
     "1", "2", "3", "4", "5", "6", "7", "8", "9", "0",
     "!", "@", "#", "$", "(", ")", " ", "-", " ", "+", "&", "=", ";", ":",
     " ", "'", "\"", "%", ",", ".", " ", " ", "/", "?", " ", "deg" >>

COLS == 22

ROWS == 6

\* i == 0 or c != " ": the slots of PRINTABLE that CHARMAP keeps
CharmapSlots == {i \in 0..(Len(PRINTABLE) - 1) : i = 0 \/ PRINTABLE[i + 1] # " "}

\* a dict comprehension keeps the last index of a repeated key
CHARMAP ==
  [c \in {PRINTABLE[i + 1] : i \in CharmapSlots} |->
     CHOOSE i \in CharmapSlots :
        /\ PRINTABLE[i + 1] = c
        /\ \A j \in CharmapSlots : PRINTABLE[j + 1] = c => j <= i]

\* the values of the Color enumeration
Color == {0} \cup (63..71)

CHARCODES == {CHARMAP[c] : c \in DOMAIN CHARMAP} \cup Color

(***************************************************************************)
(* Python built-ins, on the characters of the model.                       *)
(***************************************************************************)
LowerLetters ==
  << "a", "b", "c", "d", "e", "f", "g", "h", "i", "j", "k", "l", "m",
     "n", "o", "p", "q", "r", "s", "t", "u", "v", "w", "x", "y", "z" >>

\* str.upper of one character: a string of one or more characters
UpperChar(c) ==
  IF c = "eszett" THEN << "S", "S" >>
  ELSE IF \E k \in 1..Len(LowerLetters) : LowerLetters[k] = c
       THEN << PRINTABLE[(CHOOSE k \in 1..Len(LowerLetters) : LowerLetters[k] = c) + 1] >>
       ELSE << c >>

RECURSIVE Upper(_)
Upper(str) == IF str = << >> THEN << >> ELSE UpperChar(Head(str)) \o Upper(Tail(str))

At(seq, i) == seq[i + 1]

\* Python slice seq[lo:hi] with Python's treatment of negative and large indices
PyIndex(n, k) == IF k < 0 THEN (IF n + k < 0 THEN 0 ELSE n + k) ELSE (IF k > n THEN n ELSE k)

Slice(seq, lo, hi) == SubSeq(seq, PyIndex(Len(seq), lo) + 1, PyIndex(Len(seq), hi))

\* Python [x] * n
Repeat(x, n) == [k \in 1..(IF n > 0 THEN n ELSE 0) |-> x]

Digits == << "0", "1", "2", "3", "4", "5", "6", "7", "8", "9" >>

IsDigit(c) == \E k \in 1..10 : Digits[k] = c

DigitVal(c) == (CHOOSE k \in 1..10 : Digits[k] = c) - 1

IsSpace(c) == c \in {" ", "LF"}

\* int(str) for a string of one or two characters: surrounding whitespace is
\* stripped and one sign is accepted before the digits
PyInt(str) ==
  IF Len(str) = 1 THEN
       IF IsDigit(str[1]) THEN [ok |-> TRUE, val |-> DigitVal(str[1])]
       ELSE [ok |-> FALSE, val |-> 0]
  ELSE IF IsDigit(str[1]) /\ IsDigit(str[2])
         THEN [ok |-> TRUE, val |-> 10 * DigitVal(str[1]) + DigitVal(str[2])]
  ELSE IF IsDigit(str[1]) /\ IsSpace(str[2])
         THEN [ok |-> TRUE, val |-> DigitVal(str[1])]
  ELSE IF IsSpace(str[1]) /\ IsDigit(str[2])
         THEN [ok |-> TRUE, val |-> DigitVal(str[2])]
  ELSE IF str[1] = "+" /\ IsDigit(str[2])
         THEN [ok |-> TRUE, val |-> DigitVal(str[2])]
  ELSE IF str[1] = "-" /\ IsDigit(str[2])
         THEN [ok |-> TRUE, val |-> 0 - DigitVal(str[2])]
  ELSE [ok |-> FALSE, val |-> 0]

(***************************************************************************)
(* Outcomes of a call: a returned value or a raised exception.             *)
(***************************************************************************)
NoResult ==
  [status |-> "none", kind |-> "", value |-> << >>, pos |-> 0, char |-> "", nums |-> << >>]

Returned(v) ==
  [status |-> "ok", kind |-> "", value |-> v, pos |-> 0, char |-> "", nums |-> << >>]

\* an exception: its kind and what its message names (a position, a
\* character or mode, further numbers)
Raised(k, p, c, n) ==
  [status |-> "error", kind |-> k, value |-> << >>, pos |-> p, char |-> c, nums |-> n]

\* a call that never returns
Diverges ==
  [status |-> "diverges", kind |-> "", value |-> << >>, pos |-> 0, char |-> "", nums |-> << >>]

\* mutant: the position of the brace counted from 0
MalformedEscapeM(i) == Raised("MalformedEscape", i, "", << i + 2, i + 3 >>)

\* f"{i+1}: missing }} at index {i+2} or {i+3}"
MalformedEscape(i) == Raised("MalformedEscape", i + 1, "", << i + 2, i + 3 >>)

\* f"{i+2}: unsupported character code: {out[-1]}"
UnsupportedCode(i, n) == Raised("UnsupportedCode", i + 2, "", << n >>)

\* f"{i+1}: unsupported character: {c}"
UnsupportedCharacter(i, c) == Raised("UnsupportedCharacter", i + 1, c, << >>)

\* the ValueError of int() on a string that is not a number
InvalidLiteral == Raised("InvalidLiteral", 0, "", << >>)

\* f"{s!r} results in {len(row)} characters (max {COLS})"
LengthExceeded(n) == Raised("LengthExceeded", 0, "", << n, COLS >>)

\* f"unknown alignment: {align}"
UnknownAlignment(a) == Raised("UnknownAlignment", 0, a, << >>)

\* f"unknown vertical alignment: {valign}"
UnknownVerticalAlignment(a) == Raised("UnknownVerticalAlignment", 0, a, << >>)

\* a failed assert statement
AssertionError == Raised("AssertionError", 0, "", << >>)

\* f"unknown character code: {code}"
UnknownCharacterCode(n) == Raised("UnknownCharacterCode", 0, "", << n >>)

(***************************************************************************)
(* encode                                                                  *)
(***************************************************************************)
\* mutant: the membership check dropped
IsCharCodeM(n) == TRUE

\* out[-1] not in CHARCODES
IsCharCode(n) == n \in CHARCODES

\* mutant: only the first digit of the escape is read
EscapeResultM(str, lo, hi) == PyInt(Slice(str, lo, lo + 1))

\* int(s[i + 1]) or int(s[i + 1 : i + 3]): the value of the escape whose
\* digits are s[lo:hi]
EscapeResult(str, lo, hi) == PyInt(Slice(str, lo, hi))

\* mutant: the 2-digit form of an escape is tried before the 1-digit form
RECURSIVE EncodeLoopM(_, _, _, _, _)
EncodeLoopM(str, u, i, skip_to, out) ==
  IF i >= Len(u) THEN Returned(out)
  ELSE IF i < skip_to THEN EncodeLoopM(str, u, i + 1, skip_to, out)
  ELSE
    LET c == At(u, i)
        lens == Len(str)
    IN IF c = "{"
       THEN IF lens > i + 3 /\ At(str, i + 3) = "}"
            THEN LET n == EscapeResult(str, i + 1, i + 3)
                 IN IF ~n.ok THEN InvalidLiteral
                    ELSE IF ~IsCharCode(n.val) THEN UnsupportedCode(i, n.val)
                    ELSE EncodeLoopM(str, u, i + 1, i + 4, Append(out, n.val))
            ELSE IF lens > i + 2 /\ At(str, i + 2) = "}"
            THEN LET n == EscapeResult(str, i + 1, i + 2)
                 IN IF ~n.ok THEN InvalidLiteral
                    ELSE IF ~IsCharCode(n.val) THEN UnsupportedCode(i, n.val)
                    ELSE EncodeLoopM(str, u, i + 1, i + 3, Append(out, n.val))
            ELSE MalformedEscape(i)
       ELSE IF c \in DOMAIN CHARMAP
            THEN EncodeLoopM(str, u, i + 1, skip_to, Append(out, CHARMAP[c]))
            ELSE UnsupportedCharacter(i, c)

RECURSIVE EncodeLoop(_, _, _, _, _)
EncodeLoop(str, u, i, skip_to, out) ==
  IF i >= Len(u) THEN Returned(out)
  ELSE IF i < skip_to THEN EncodeLoop(str, u, i + 1, skip_to, out)
  ELSE
    LET c == At(u, i)
        lens == Len(str)
    IN IF c = "{"
       THEN IF lens > i + 2 /\ At(str, i + 2) = "}"
            THEN LET n == EscapeResult(str, i + 1, i + 2)
                 IN IF ~n.ok THEN InvalidLiteral
                    ELSE IF ~IsCharCode(n.val) THEN UnsupportedCode(i, n.val)
                    ELSE EncodeLoop(str, u, i + 1, i + 3, Append(out, n.val))
            ELSE IF lens > i + 3 /\ At(str, i + 3) = "}"
            THEN LET n == EscapeResult(str, i + 1, i + 3)
                 IN IF ~n.ok THEN InvalidLiteral
                    ELSE IF ~IsCharCode(n.val) THEN UnsupportedCode(i, n.val)
                    ELSE EncodeLoop(str, u, i + 1, i + 4, Append(out, n.val))
            ELSE MalformedEscape(i)
       ELSE IF c \in DOMAIN CHARMAP
            THEN EncodeLoop(str, u, i + 1, skip_to, Append(out, CHARMAP[c]))
            ELSE UnsupportedCharacter(i, c)

encode(str) == EncodeLoop(str, Upper(str), 0, 0, << >>)

(***************************************************************************)
(* _format_row                                                             *)
(***************************************************************************)
\* math.floor(n / 2) and math.ceil(n / 2)
FloorHalf(n) == n \div 2

CeilHalf(n) == n - (n \div 2)

\* mutant: left alignment leaves no margin before the content
AlignLeftM(row, mg, fl) == row \o Repeat(fl, COLS - Len(row))

\* [fill] * margin + row + [fill] * (COLS - len(row) - margin)
AlignLeft(row, mg, fl) == Repeat(fl, mg) \o row \o Repeat(fl, COLS - Len(row) - mg)

\* [fill] * (COLS - len(row) - margin) + row + [fill] * margin
AlignRight(row, mg, fl) == Repeat(fl, COLS - Len(row) - mg) \o row \o Repeat(fl, mg)

\* mutant: the odd fill cell goes before the content
AlignCenterM(row, mg, fl) ==
  Repeat(fl, CeilHalf(COLS - Len(row))) \o row \o Repeat(fl, FloorHalf(COLS - Len(row)))

\* pad = (COLS - len(row)) / 2; [fill] * floor(pad) + row + [fill] * ceil(pad)
AlignCenter(row, mg, fl) ==
  Repeat(fl, FloorHalf(COLS - Len(row))) \o row \o Repeat(fl, CeilHalf(COLS - Len(row)))

\* mutant: assertions disabled
RowIsFullM(row) == TRUE

\* assert len(row) == COLS
RowIsFull(row) == Len(row) = COLS

_format_row(row, al, mg, fl) ==
  IF ~(Len(row) <= COLS - mg * 2) THEN AssertionError
  ELSE IF al \notin {"left", "right", "center"} THEN UnknownAlignment(al)
  ELSE LET out == CASE al = "left" -> AlignLeft(row, mg, fl)
                    [] al = "right" -> AlignRight(row, mg, fl)
                    [] al = "center" -> AlignCenter(row, mg, fl)
       IN IF RowIsFull(out) THEN Returned(out) ELSE AssertionError

(***************************************************************************)
(* encode_row                                                              *)
(***************************************************************************)
\* mutant: a row of exactly COLS codes is refused
encode_rowM(str, al, fl) ==
  LET row == encode(str)
  IN IF row.status # "ok" THEN row
     ELSE IF Len(row.value) >= COLS THEN LengthExceeded(Len(row.value))
     ELSE _format_row(row.value, al, 0, fl)

encode_row(str, al, fl) ==
  LET row == encode(str)
  IN IF row.status # "ok" THEN row
     ELSE IF Len(row.value) > COLS THEN LengthExceeded(Len(row.value))
     ELSE _format_row(row.value, al, 0, fl)

(***************************************************************************)
(* encode_text                                                             *)
(***************************************************************************)
\* str.splitlines: the lines of str, without the line feeds that end them
RECURSIVE SplitLoop(_, _, _)
SplitLoop(str, cur, acc) ==
  IF str = << >> THEN (IF cur = << >> THEN acc ELSE Append(acc, cur))
  ELSE IF Head(str) = "LF" THEN SplitLoop(Tail(str), << >>, Append(acc, cur))
  ELSE SplitLoop(Tail(str), Append(cur, Head(str)), acc)

splitlines(str) == SplitLoop(str, << >>, << >>)

Min(a, b) == IF a < b THEN a ELSE b

\* mutant: the code after the break code is skipped as well
find_breakN(line, max_cols, brk) ==
  LET end == Min(Len(line), max_cols)
      found == {p \in 1..end : At(line, p) \in brk}
  IN IF found = {} THEN [pos |-> end, resume |-> end]
     ELSE LET p == CHOOSE q \in found : \A r \in found : r <= q
          IN [pos |-> p, resume |-> p + 2]

\* mutant: the break farthest from the width limit is taken
find_breakM(line, max_cols, brk) ==
  LET end == Min(Len(line), max_cols)
      found == {p \in 1..end : At(line, p) \in brk}
  IN IF found = {} THEN [pos |-> end, resume |-> end]
     ELSE LET p == CHOOSE q \in found : \A r \in found : q <= r
          IN [pos |-> p, resume |-> p + 1]

\* for pos in range(end, 0, -1): if line[pos] in breaks: return pos, pos + 1
\* return end, end
find_break(line, max_cols, brk) ==
  LET end == Min(Len(line), max_cols)
      found == {p \in 1..end : At(line, p) \in brk}
  IN IF found = {} THEN [pos |-> end, resume |-> end]
     ELSE LET p == CHOOSE q \in found : \A r \in found : r <= q
          IN [pos |-> p, resume |-> p + 1]

\* the while loop over one encoded line, then the row of what is left of it;
\* an iteration that leaves the line as it was is repeated forever
RECURSIVE WrapLine(_, _, _, _, _, _)
WrapLine(line, rows, al, mg, fl, brk) ==
  LET max_cols == COLS - mg * 2
  IN IF Len(line) > max_cols
     THEN LET b == find_break(line, max_cols, brk)
              r == _format_row(Slice(line, 0, b.pos), al, mg, fl)
              rest == Slice(line, b.resume, Len(line))
          IN IF r.status # "ok" THEN r
             ELSE IF rest = line THEN Diverges
             ELSE WrapLine(rest, Append(rows, r.value), al, mg, fl, brk)
     ELSE LET r == _format_row(line, al, mg, fl)
          IN IF r.status # "ok" THEN r ELSE Returned(Append(rows, r.value))

\* for line in map(encode, s.splitlines()): each line is encoded when the
\* loop reaches it
RECURSIVE LinesLoop(_, _, _, _, _, _)
LinesLoop(lines, rows, al, mg, fl, brk) ==
  IF lines = << >> THEN Returned(rows)
  ELSE LET line == encode(Head(lines))
       IN IF line.status # "ok" THEN line
          ELSE LET w == WrapLine(line.value, rows, al, mg, fl, brk)
               IN IF w.status # "ok" THEN w
                  ELSE LinesLoop(Tail(lines), w.value, al, mg, fl, brk)

\* mutant: no truncation
OverflowM(rows, mr) == Returned(rows)

\* the rows of a text that has more rows than max_rows: rows[:max_rows]
Overflow(rows, mr) == Returned(Slice(rows, 0, mr))

\* mutant: middle puts the odd blank row before the content
VerticalPadM(rows, va, mr, fl) ==
  LET nrows == Len(rows)
      empty == Repeat(fl, COLS)
  IN CASE va = "top" -> Returned(rows \o Repeat(empty, mr - nrows))
       [] va = "bottom" -> Returned(Repeat(empty, mr - nrows) \o rows)
       [] va = "middle" ->
            Returned(Repeat(empty, CeilHalf(mr - nrows)) \o rows
                       \o Repeat(empty, FloorHalf(mr - nrows)))
       [] OTHER -> UnknownVerticalAlignment(va)

\* the padding of a text that has fewer rows than max_rows
VerticalPad(rows, va, mr, fl) ==
  LET nrows == Len(rows)
      empty == Repeat(fl, COLS)
  IN CASE va = "top" -> Returned(rows \o Repeat(empty, mr - nrows))
       [] va = "bottom" -> Returned(Repeat(empty, mr - nrows) \o rows)
       [] va = "middle" ->
            Returned(Repeat(empty, FloorHalf(mr - nrows)) \o rows
                       \o Repeat(empty, CeilHalf(mr - nrows)))
       [] OTHER -> UnknownVerticalAlignment(va)

\* mutant: max_rows < 1 is treated as a row limit like any other
encode_textM(str, al, va, mr, mg, fl, brk) ==
  LET r == LinesLoop(splitlines(str), << >>, al, mg, fl, brk)
  IN IF r.status # "ok" THEN r
     ELSE IF Len(r.value) < mr /\ va # "None" THEN VerticalPad(r.value, va, mr, fl)
     ELSE IF Len(r.value) > mr THEN Overflow(r.value, mr)
     ELSE r

encode_text(str, al, va, mr, mg, fl, brk) ==
  LET r == LinesLoop(splitlines(str), << >>, al, mg, fl, brk)
  IN IF r.status # "ok" THEN r
     ELSE IF mr < 1 THEN r
     ELSE IF Len(r.value) < mr /\ va # "None" THEN VerticalPad(r.value, va, mr, fl)
     ELSE IF Len(r.value) > mr THEN Overflow(r.value, mr)
     ELSE r

(***************************************************************************)
(* pprint.  A string is the sequence of its characters; an ANSI escape     *)
(* sequence is one element of it, and so is the default block glyph.       *)
(***************************************************************************)
\* the ansi attribute of each Color
Ansi ==
  [c \in Color |->
     CASE c = 0 -> "ESC[0m"
       [] c = 63 -> "ESC[31m"
       [] c = 64 -> "ESC[33m"
       [] c = 65 -> "ESC[93m"
       [] c = 66 -> "ESC[32m"
       [] c = 67 -> "ESC[94m"
       [] c = 68 -> "ESC[95m"
       [] c = 69 -> "ESC[97m"
       [] c = 70 -> "ESC[0m"
       [] c = 71 -> "ESC[97m"]

\* mutant: the code is taken as a 1-based position in PRINTABLE
symbolM(code, colors, block) ==
  IF 0 <= code /\ code < Len(PRINTABLE)
  THEN Returned(<< PRINTABLE[IF code = 0 THEN 1 ELSE code] >>)
  ELSE IF code \in Color
       THEN Returned(IF colors THEN << Ansi[code] >> \o block \o << "ESC[0m" >> ELSE block)
       ELSE UnknownCharacterCode(code)

symbol(code, colors, block) ==
  IF 0 <= code /\ code < Len(PRINTABLE)
  THEN Returned(<< PRINTABLE[code + 1] >>)
  ELSE IF code \in Color
       THEN Returned(IF colors THEN << Ansi[code] >> \o block \o << "ESC[0m" >> ELSE block)
       ELSE UnknownCharacterCode(code)

\* sep.join(map(symbol, row)), from cell k on
RECURSIVE JoinSymbols(_, _, _, _, _)
JoinSymbols(row, k, sep, colors, block) ==
  IF k > Len(row) THEN Returned(<< >>)
  ELSE LET head == symbol(row[k], colors, block)
       IN IF head.status # "ok" THEN head
          ELSE LET tail == JoinSymbols(row, k + 1, sep, colors, block)
               IN IF tail.status # "ok" THEN tail
                  ELSE Returned(head.value \o (IF k < Len(row) THEN sep ELSE << >>)
                                  \o tail.value)

\* mutant: a line is not closed by the separator
RECURSIVE JoinLinesM(_, _, _, _, _)
JoinLinesM(rows, k, sep, colors, block) ==
  IF k > Len(rows) THEN Returned(<< >>)
  ELSE LET cells == JoinSymbols(rows[k], 1, sep, colors, block)
       IN IF cells.status # "ok" THEN cells
          ELSE LET rest == JoinLinesM(rows, k + 1, sep, colors, block)
               IN IF rest.status # "ok" THEN rest
                  ELSE Returned(sep \o cells.value
                                  \o (IF k < Len(rows) THEN << "LF" >> ELSE << >>)
                                  \o rest.value)

\* "\n".join(lines), from row k on
RECURSIVE JoinLines(_, _, _, _, _)
JoinLines(rows, k, sep, colors, block) ==
  IF k > Len(rows) THEN Returned(<< >>)
  ELSE LET cells == JoinSymbols(rows[k], 1, sep, colors, block)
       IN IF cells.status # "ok" THEN cells
          ELSE LET rest == JoinLines(rows, k + 1, sep, colors, block)
               IN IF rest.status # "ok" THEN rest
                  ELSE Returned(sep \o cells.value \o sep
                                  \o (IF k < Len(rows) THEN << "LF" >> ELSE << >>)
                                  \o rest.value)

\* nested: the elements of data are lists; isatty: what stream.isatty() answers
pprint(data, nested, isatty, sep, block) ==
  LET rows == IF data # << >> /\ nested THEN data ELSE << data >>
      colors == isatty
      sep2 == IF colors /\ sep # << >> THEN << "ESC[90m" >> \o sep \o << "ESC[0m" >> ELSE sep
      lines == JoinLines(rows, 1, sep2, colors, block)
  IN IF lines.status # "ok" THEN lines ELSE Returned(lines.value \o << "LF" >>)

(***************************************************************************)
(* Inputs.                                                                 *)
(***************************************************************************)
Strings(alphabet, n) == UNION {[1..k -> alphabet] : k \in 0..n}

EncodeAlphabet == {"a", "eszett", " ", "+", "-", "5", "7", "{", "}", "<"}

DecimalString(n) ==
  IF n < 10 THEN << Digits[n + 1] >> ELSE << Digits[(n \div 10) + 1], Digits[(n % 10) + 1] >>

\* the strings "{N}" of test_encode_character_codes, for every N of one or two digits
EscapeStrings == {<< "{" >> \o DecimalString(n) \o << "}" >> : n \in 0..99}

\* the strings of test_encode_bad_characters
BadStrings ==
  { << "<", ">" >>, << "{", "9", "9", "}" >>, << "{", "2", "0" >>,
    << "{", "9", "9", "9", "}" >> }

\* an escape "{N}" with at most one character before it and after it
FramedEscapes ==
  {p \o e \o q : p \in Strings(EncodeAlphabet, 1), e \in EscapeStrings,
                 q \in Strings(EncodeAlphabet, 1)}

EncodeInputs == Strings(EncodeAlphabet, MaxLen) \cup FramedEscapes \cup BadStrings

RECURSIVE Rep(_, _)
Rep(str, n) == IF n <= 0 THEN << >> ELSE str \o Rep(str, n - 1)

TextAlphabet == {"a", " ", "LF"}

Word == << "w", "o", "r", "d" >>

\* the texts of the tests of encode_row and encode_text (tests/test_chars.py)
TestTexts ==
  { << "a", "LF", "b", "LF", "c" >>,
    Rep(<< "a", "LF" >>, ROWS + 1),
    Rep(<< "a" >>, COLS),
    Rep(Word \o << " " >>, 9) \o Word,
    Rep(<< "a" >>, 21) \o << "{", "1", "0", "}" >>,
    Rep(<< "a" >>, 30),
    Rep(<< "a" >>, 22) \o << "{", "1", "0", "}" >>,
    << "{", "6", "6", "}", " ", "a" >> }

Texts == Strings(TextAlphabet, MaxTextLen) \cup TestTexts \cup BadStrings

Aligns == {"left", "center", "right", "unknown"}

VAligns == {"top", "middle", "bottom", "None", "unknown"}

RowLimits == {0, 2, 3, ROWS}

Margins == {-1, 0, 1, 10, 11, 12}

Fills == {0, 66, 99}

BreakSets == {{0}, {1}}

(***************************************************************************)
(* The state machine: one call of an operation of chars.py on the input.   *)
(***************************************************************************)
\* no object has been handed over
NoData == argument = [type |-> "none", value |-> << >>]

\* a LocalClient constructed without a key, before any call
NoResponse == [status |-> "none", body |-> "", key |-> ""]

NoClient ==
  /\ api_key = "None"
  /\ requests = << >>
  /\ calls = 0
  /\ response = NoResponse

\* outside the wrapping loop
NoWrap ==
  /\ remaining = << >>
  /\ cut = << >>
  /\ pc = "idle"

\* no grid has been returned
NoGrid ==
  /\ grid = << >>
  /\ heap = << >>
  /\ touched = 0

Defaults ==
  /\ align = "left"
  /\ valign = "top"
  /\ max_rows = ROWS
  /\ margin = 0
  /\ fill = 0
  /\ breaks = {0}

Encode ==
  /\ op = "none"
  /\ op' = "encode"
  /\ result' = encode(s)
  /\ UNCHANGED <<s, align, valign, max_rows, margin, fill, breaks>>
  /\ UNCHANGED <<dataVars, clientVars, wrapVars, gridVars>>

InitEncode ==
  /\ s \in EncodeInputs
  /\ Defaults
  /\ op = "none"
  /\ result = NoResult
  /\ NoData /\ NoClient /\ NoWrap /\ NoGrid

NextEncode == Encode

SpecEncode == InitEncode /\ [][NextEncode]_vars

\* one call per run: nothing is called once the call has returned or raised
EncodeRow ==
  /\ op = "none"
  /\ \E al \in Aligns, fl \in Fills :
       /\ op' = "encode_row"
       /\ align' = al
       /\ fill' = fl
       /\ result' = encode_row(s, al, fl)
  /\ UNCHANGED <<s, valign, max_rows, margin, breaks>>
  /\ UNCHANGED <<dataVars, clientVars, wrapVars, gridVars>>

EncodeText ==
  /\ op = "none"
  /\ \E al \in Aligns, va \in VAligns, mr \in RowLimits, mg \in Margins,
        fl \in Fills, brk \in BreakSets :
       /\ op' = "encode_text"
       /\ align' = al
       /\ valign' = va
       /\ max_rows' = mr
       /\ margin' = mg
       /\ fill' = fl
       /\ breaks' = brk
       /\ result' = encode_text(s, al, va, mr, mg, fl, brk)
  /\ UNCHANGED s
  /\ UNCHANGED <<dataVars, clientVars, wrapVars, gridVars>>

InitText ==
  /\ s \in Texts
  /\ Defaults
  /\ op = "none"
  /\ result = NoResult
  /\ NoData /\ NoClient /\ NoWrap /\ NoGrid

NextText == EncodeRow \/ EncodeText

SpecText == InitText /\ [][NextText]_vars

\* every key of CHARMAP, and every lower-case letter
PrintableStrings ==
  {<< c >> : c \in DOMAIN CHARMAP} \cup {<< LowerLetters[k] >> : k \in 1..Len(LowerLetters)}

PrintInputs == PrintableStrings \cup EscapeStrings

\* the default separator, and none
Separators == {<< "|" >>, << >>}

\* the default block glyph
Blocks == {<< "block" >>}

\* the codes that encode returned are printed
Pprint ==
  /\ op = "encode"
  /\ result.status = "ok"
  /\ \E isatty \in BOOLEAN, sep \in Separators, block \in Blocks :
        result' = pprint(result.value, FALSE, isatty, sep, block)
  /\ op' = "pprint"
  /\ UNCHANGED <<s, align, valign, max_rows, margin, fill, breaks>>
  /\ UNCHANGED <<dataVars, clientVars, wrapVars, gridVars>>

\* a list of codes (Row) and a list of such lists (Rows), as objects; the
\* record of a Row holds it as the one element of its value
RowObject(row) == [type |-> "row", value |-> << row >>]

RowsObject(rows) == [type |-> "rows", value |-> rows]

\* the Python value of an object
ValueOf(object) == IF object.type = "row" THEN object.value[1] ELSE object.value

\* the rows handed to pprint: every one-cell row from -1 to 100, the
\* two-cell rows and the grids of one or two short rows over a few codes of
\* each sort, and the empty list
PrintData ==
  {RowObject(<< n >>) : n \in -1..100}
    \cup {RowObject(<< m, n >>) : m, n \in {0, 1, 43, 62, 63, 71, 72}}
    \cup {RowsObject(g) : g \in Strings(Strings({1, 63, 99}, 2), 2) \ {<< >>}}
    \cup {RowObject(<< >>)}

\* pprint of an object of the caller
PprintData ==
  /\ op = "none"
  /\ argument.type \in {"row", "rows"}
  /\ \E isatty \in BOOLEAN, sep \in Separators, block \in Blocks :
        result' = pprint(ValueOf(argument), argument.type = "rows", isatty, sep, block)
  /\ op' = "pprint_data"
  /\ UNCHANGED <<s, align, valign, max_rows, margin, fill, breaks>>
  /\ UNCHANGED <<dataVars, clientVars, wrapVars, gridVars>>

InitPrint ==
  /\ \/ s \in PrintInputs /\ NoData
     \/ s = << >> /\ argument \in PrintData
  /\ Defaults
  /\ op = "none"
  /\ result = NoResult
  /\ NoClient /\ NoWrap /\ NoGrid

NextPrint == Encode \/ Pprint \/ PprintData

SpecPrint == InitPrint /\ [][NextPrint]_vars

(***************************************************************************)
(* The wrapping loop of encode_text, one iteration at a time, on a text of *)
(* one line.  Beside each row the loop appends, cut keeps the codes the    *)
(* row was made from and the codes skipped after them.                     *)
(***************************************************************************)
\* the texts of one line over a letter and a blank, and lines longer than
\* a row: six words, thirty letters, a full row followed by a blank
WrapTexts ==
  Strings({"a", " "}, 5)
    \cup { Rep(Word \o << " " >>, 5) \o Word,
           Rep(<< "a" >>, 30),
           Rep(<< "a" >>, COLS) \o << " " >> }

WrapMargins == {0, 1, 10, 11, 12}

\* line = encode(...): the first (and only) line of the text
WrapStart ==
  /\ pc = "idle"
  /\ LET encoded == encode(s)
     IN IF encoded.status # "ok"
        THEN /\ result' = encoded
             /\ pc' = "raised"
             /\ UNCHANGED remaining
        ELSE /\ remaining' = encoded.value
             /\ pc' = "loop"
             /\ UNCHANGED result
  /\ op' = "encode_text"
  /\ UNCHANGED <<s, align, valign, max_rows, margin, fill, breaks, cut>>
  /\ UNCHANGED <<dataVars, clientVars, gridVars>>

\* one iteration of: while len(line) > max_cols
WrapStep ==
  /\ pc = "loop"
  /\ Len(remaining) > COLS - margin * 2
  /\ Len(cut) < MaxRows
  /\ LET b == find_break(remaining, COLS - margin * 2, breaks)
         r == _format_row(Slice(remaining, 0, b.pos), align, margin, fill)
     IN IF r.status # "ok"
        THEN /\ result' = r
             /\ pc' = "raised"
             /\ UNCHANGED <<remaining, cut>>
        ELSE /\ cut' = Append(cut, [row |-> r.value,
                                    content |-> Slice(remaining, 0, b.pos),
                                    dropped |-> Slice(remaining, b.pos, b.resume)])
             /\ remaining' = Slice(remaining, b.resume, Len(remaining))
             /\ UNCHANGED <<result, pc>>
  /\ UNCHANGED <<s, align, valign, max_rows, margin, fill, breaks, op>>
  /\ UNCHANGED <<dataVars, clientVars, gridVars>>

\* rows.append(_format_row(line, align, margin, fill)) after the loop
WrapLast ==
  /\ pc = "loop"
  /\ ~(Len(remaining) > COLS - margin * 2)
  /\ LET r == _format_row(remaining, align, margin, fill)
     IN IF r.status # "ok"
        THEN /\ result' = r
             /\ pc' = "raised"
             /\ UNCHANGED <<remaining, cut>>
        ELSE /\ cut' = Append(cut, [row |-> r.value, content |-> remaining,
                                    dropped |-> << >>])
             /\ remaining' = << >>
             /\ result' = Returned([k \in 1..(Len(cut) + 1) |->
                                      IF k <= Len(cut) THEN cut[k].row ELSE r.value])
             /\ pc' = "done"
  /\ UNCHANGED <<s, align, valign, max_rows, margin, fill, breaks, op>>
  /\ UNCHANGED <<dataVars, clientVars, gridVars>>

InitWrap ==
  /\ s \in WrapTexts
  /\ align \in {"left", "center", "right"}
  /\ valign = "top"
  /\ max_rows = 0
  /\ margin \in WrapMargins
  /\ fill = 0
  /\ breaks \in BreakSets
  /\ op = "none"
  /\ result = NoResult
  /\ NoWrap /\ NoData /\ NoClient /\ NoGrid

NextWrap == WrapStart \/ WrapStep \/ WrapLast

SpecWrap == InitWrap /\ [][NextWrap]_vars

(***************************************************************************)
(* The list objects of the grid encode_text returns.  Every row that       *)
(* _format_row returns is a list of its own; "empty" is one list, and      *)
(* [empty] * n is n references to it.  heap gives the cells of each        *)
(* object, grid the object each row of the returned list refers to.        *)
(***************************************************************************)
\* the objects of the rows after the padding and truncation of encode_text,
\* for the objects ids of the physical rows and the object empty
RowObjects(ids, va, mr, empty) ==
  LET nrows == Len(ids)
  IN IF mr < 1 THEN ids
     ELSE IF nrows < mr /\ va # "None"
     THEN CASE va = "top" -> ids \o Repeat(empty, mr - nrows)
            [] va = "bottom" -> Repeat(empty, mr - nrows) \o ids
            [] va = "middle" ->
                 Repeat(empty, FloorHalf(mr - nrows)) \o ids
                   \o Repeat(empty, CeilHalf(mr - nrows))
     ELSE IF nrows > mr THEN Slice(ids, 0, mr)
     ELSE ids

\* encode_text, with the objects of the rows it returns
EncodeGrid ==
  /\ op = "none"
  /\ \E va \in {"top", "middle", "bottom", "None"}, mr \in RowLimits, fl \in {0, 66} :
       LET physical == LinesLoop(splitlines(s), << >>, align, margin, fl, breaks)
           N == Len(physical.value)
       IN /\ valign' = va
          /\ max_rows' = mr
          /\ fill' = fl
          /\ result' = encode_text(s, align, va, mr, margin, fl, breaks)
          /\ IF physical.status = "ok"
             THEN /\ grid' = RowObjects([k \in 1..N |-> k], va, mr, N + 1)
                  /\ heap' = [id \in 1..(N + 1) |->
                                IF id <= N THEN physical.value[id] ELSE Repeat(fl, COLS)]
             ELSE UNCHANGED <<grid, heap>>
  /\ op' = "encode_text"
  /\ UNCHANGED <<s, align, margin, breaks, touched>>
  /\ UNCHANGED <<dataVars, clientVars, wrapVars>>

\* the caller writes to a cell of a returned row: rows[k][c] = v
SetCell ==
  /\ op = "encode_text"
  /\ result.status = "ok"
  /\ touched = 0
  /\ \E k \in 1..Len(grid), c \in {0, COLS - 1}, v \in {5} :
       /\ heap' = [heap EXCEPT ![grid[k]][c + 1] = v]
       /\ touched' = k
  /\ UNCHANGED <<s, align, valign, max_rows, margin, fill, breaks, op, result, grid>>
  /\ UNCHANGED <<dataVars, clientVars, wrapVars>>

InitGrid ==
  /\ s \in Strings(TextAlphabet, MaxTextLen)
  /\ Defaults
  /\ op = "none"
  /\ result = NoResult
  /\ NoGrid /\ NoData /\ NoClient /\ NoWrap

NextGrid == EncodeGrid \/ SetCell

SpecGrid == InitGrid /\ [][NextGrid]_vars

(***************************************************************************)
(* clients.py.  An HTTP answer is a record: status "unreachable" when the  *)
(* request itself fails, else a status code; the body is empty, not JSON,  *)
(* a JSON list or a JSON object; key is the "apiKey" member of the object  *)
(* ("None" when it has none).  A call yields its outcome, the requests it  *)
(* sent and the Local API key the client holds afterwards.                 *)
(***************************************************************************)
\* raise ValueError(f"expected a ({COLS}, {ROWS}) array of encoded characters")
BadDimensions == Raised("ValueError", 0, "", << COLS, ROWS >>)

\* raise TypeError(f"unsupported message type: {type(message)}")
UnsupportedMessageType == Raised("TypeError", 0, "unsupported message type", << >>)

\* len() of an object that has no length
NoLength == Raised("TypeError", 0, "has no len()", << >>)

\* raise RuntimeError("Local API has not been enabled")
NotEnabled == Raised("RuntimeError", 0, "Local API has not been enabled", << >>)

\* what httpx raises when the request cannot be made or answered
TransportError == Raised("TransportError", 0, "", << >>)

\* r.raise_for_status() on a 4xx or 5xx answer
HTTPStatusError == Raised("HTTPStatusError", 0, "", << >>)

\* r.json() on a body that is not JSON (not caught by the caller)
JSONDecodeError == Raised("JSONDecodeError", 0, "", << >>)

\* .get on a JSON value that is not an object
AttributeError == Raised("AttributeError", 0, "", << >>)

Done(r, sent, key) == [result |-> r, sent |-> sent, key |-> key]

\* mutant: only the number of rows is checked
validate_rowsM(message) ==
  IF message.type = "other" THEN NoLength
  ELSE IF message.type = "str" THEN BadDimensions
  ELSE IF Len(ValueOf(message)) # ROWS THEN BadDimensions
  ELSE Returned(<< >>)

\* len(rows) != ROWS or not all(len(row) == COLS for row in rows); a string
\* has characters of length 1 for rows
validate_rows(message) ==
  IF message.type = "other" THEN NoLength
  ELSE IF message.type = "str" THEN BadDimensions
  ELSE IF Len(ValueOf(message)) # ROWS
          \/ ~(\A k \in 1..Len(ValueOf(message)) : Len(ValueOf(message)[k]) = COLS)
       THEN BadDimensions
       ELSE Returned(<< >>)

\* the request is made and r.raise_for_status() is called
Answered(resp) ==
  IF resp.status = "unreachable" THEN TransportError
  ELSE IF resp.status \notin {"200", "201"} THEN HTTPStatusError
  ELSE Returned(<< >>)

Client_post_message(key, message, resp) ==
  LET checked == IF message.type = "str" THEN Returned(<< >>)
                 ELSE IF message.type \in {"row", "rows"} THEN validate_rows(message)
                 ELSE UnsupportedMessageType
      sent == << "POST /subscriptions/id/message" >>
  IN IF checked.status # "ok" THEN Done(checked, << >>, key)
     ELSE IF Answered(resp).status # "ok" THEN Done(Answered(resp), sent, key)
     ELSE IF resp.body \in {"empty", "not_json"} THEN Done(JSONDecodeError, sent, key)
     ELSE Done(Returned(<< resp.body >>), sent, key)

\* return r.is_success: true once r.raise_for_status() has passed
ReadWriteClient_write_message(key, message, resp) ==
  LET checked == IF message.type = "str" THEN Returned(<< >>)
                 ELSE IF message.type \in {"row", "rows"} THEN validate_rows(message)
                 ELSE UnsupportedMessageType
      sent == << "POST " >>
  IN IF checked.status # "ok" THEN Done(checked, << >>, key)
     ELSE IF Answered(resp).status # "ok" THEN Done(Answered(resp), sent, key)
     ELSE Done(Returned(<< "True" >>), sent, key)

\* mutant: the key of the response is returned but not kept
LocalClient_enableN(key, message, resp) ==
  LET sent == << "POST /local-api/enablement" >>
      local_api_key == IF resp.body \in {"empty", "not_json"} THEN "None" ELSE resp.key
  IN IF Answered(resp).status # "ok" THEN Done(Answered(resp), sent, key)
     ELSE IF resp.body = "json_list" THEN Done(AttributeError, sent, key)
     ELSE Done(Returned(<< local_api_key >>), sent, key)

\* mutant: a response without a key clears the key of the client
LocalClient_enableM(key, message, resp) ==
  LET sent == << "POST /local-api/enablement" >>
      local_api_key == IF resp.body \in {"empty", "not_json"} THEN "None" ELSE resp.key
  IN IF Answered(resp).status # "ok" THEN Done(Answered(resp), sent, key)
     ELSE IF resp.body = "json_list" THEN Done(AttributeError, sent, key)
     ELSE Done(Returned(<< local_api_key >>), sent, local_api_key)

\* "if local_api_key:" holds for a string that is not empty
LocalClient_enable(key, message, resp) ==
  LET sent == << "POST /local-api/enablement" >>
      local_api_key == IF resp.body \in {"empty", "not_json"} THEN "None" ELSE resp.key
  IN IF Answered(resp).status # "ok" THEN Done(Answered(resp), sent, key)
     ELSE IF resp.body = "json_list" THEN Done(AttributeError, sent, key)
     ELSE Done(Returned(<< local_api_key >>), sent,
               IF local_api_key \notin {"None", ""} THEN local_api_key ELSE key)

LocalClient_read_message(key, message, resp) ==
  LET sent == << "GET /local-api/message" >>
  IN IF key = "None" THEN Done(NotEnabled, << >>, key)
     ELSE IF Answered(resp).status # "ok" THEN Done(Answered(resp), sent, key)
     ELSE IF resp.body \in {"empty", "not_json"} THEN Done(Returned(<< "None" >>), sent, key)
     ELSE IF resp.body = "json_list" THEN Done(AttributeError, sent, key)
     ELSE Done(Returned(<< "message" >>), sent, key)

\* mutant: the message is checked before the key
LocalClient_write_messageM(key, message, resp) ==
  LET sent == << "POST /local-api/message" >>
  IN IF validate_rows(message).status # "ok" THEN Done(validate_rows(message), << >>, key)
     ELSE IF key = "None" THEN Done(NotEnabled, << >>, key)
     ELSE IF Answered(resp).status # "ok" THEN Done(Answered(resp), sent, key)
     ELSE Done(Returned(<< IF resp.status = "201" THEN "True" ELSE "False" >>), sent, key)

LocalClient_write_message(key, message, resp) ==
  LET sent == << "POST /local-api/message" >>
  IN IF key = "None" THEN Done(NotEnabled, << >>, key)
     ELSE IF validate_rows(message).status # "ok" THEN Done(validate_rows(message), << >>, key)
     ELSE IF Answered(resp).status # "ok" THEN Done(Answered(resp), sent, key)
     ELSE Done(Returned(<< IF resp.status = "201" THEN "True" ELSE "False" >>), sent, key)

\* a grid of nrows rows of ncols blank cells
Blank(nrows, ncols) == Repeat(Repeat(0, ncols), nrows)

StrObject == [type |-> "str", value |-> << >>]

OtherObject == [type |-> "other", value |-> << >>]

NoObject == [type |-> "none", value |-> << >>]

\* the messages of the tests ([], a (22, 6) grid, a string, True) and grids
\* with a row or a cell too few or too many
Messages ==
  { RowObject(<< >>), StrObject, OtherObject,
    RowsObject(Blank(ROWS, COLS)),
    RowsObject(Blank(ROWS - 1, COLS)),
    RowsObject(Blank(ROWS + 1, COLS)),
    RowsObject(Blank(ROWS, COLS - 1)),
    RowsObject(Blank(ROWS, COLS + 1)),
    RowsObject(Blank(ROWS - 1, COLS) \o Blank(1, COLS - 1)),
    RowsObject(Blank(1, COLS + 1) \o Blank(ROWS - 1, COLS)) }

Responses ==
  { [status |-> "unreachable", body |-> "", key |-> ""],
    [status |-> "500", body |-> "empty", key |-> ""] }
    \cup {[status |-> st, body |-> b, key |-> ""] :
            st \in {"200", "201"}, b \in {"empty", "not_json", "json_list"}}
    \cup {[status |-> st, body |-> "json", key |-> k] :
            st \in {"200", "201"}, k \in {"None", "", "key", "key2"}}

\* one call: what it is, its message, the answer its request would get
Call(name, message, resp, out) ==
  /\ calls' = calls + 1
  /\ op' = name
  /\ argument' = message
  /\ result' = out.result
  /\ requests' = requests \o out.sent
  /\ api_key' = out.key
  /\ response' = IF out.sent = << >> THEN NoResponse ELSE resp
  /\ UNCHANGED <<s, align, valign, max_rows, margin, fill, breaks>>
  /\ UNCHANGED <<wrapVars, gridVars>>

PostMessage ==
  /\ calls < MaxCalls
  /\ \E message \in Messages, resp \in Responses :
        Call("post_message", message, resp, Client_post_message(api_key, message, resp))

RWWriteMessage ==
  /\ calls < MaxCalls
  /\ \E message \in Messages, resp \in Responses :
        Call("rw_write_message", message, resp,
             ReadWriteClient_write_message(api_key, message, resp))

Enable ==
  /\ calls < MaxCalls
  /\ \E resp \in Responses :
        Call("enable", NoObject, resp, LocalClient_enable(api_key, NoObject, resp))

ReadMessage ==
  /\ calls < MaxCalls
  /\ \E resp \in Responses :
        Call("read_message", NoObject, resp, LocalClient_read_message(api_key, NoObject, resp))

WriteMessage ==
  /\ calls < MaxCalls
  /\ \E message \in Messages, resp \in Responses :
        Call("write_message", message, resp,
             LocalClient_write_message(api_key, message, resp))

\* LocalClient() or LocalClient("key")
InitClient ==
  /\ s = << >>
  /\ Defaults
  /\ op = "none"
  /\ result = NoResult
  /\ api_key \in {"None", "key"}
  /\ requests = << >>
  /\ calls = 0
  /\ response = NoResponse
  /\ NoData /\ NoWrap /\ NoGrid

NextClient == PostMessage \/ RWWriteMessage \/ Enable \/ ReadMessage \/ WriteMessage

SpecClient == InitClient /\ [][NextClient]_vars

(***************************************************************************)
(* The reading of an input that the documentation of encode describes: a   *)
(* character of the printable alphabet (a key of CHARMAP, in either case)  *)
(* stands for its code, and "{" followed by one or two decimal digits and  *)
(* "}" stands for the number the digits spell.  Indices are those of the   *)
(* input.  The reading stops at the first place that is neither.           *)
(***************************************************************************)
ValidCodes == (0..71) \ {43, 45, 51, 57, 58, 61}

InAlphabet(c) == Len(UpperChar(c)) = 1 /\ UpperChar(c)[1] \in DOMAIN CHARMAP

AllDigits(str) == \A k \in 1..Len(str) : IsDigit(str[k])

Decimal(str) ==
  IF Len(str) = 1 THEN DigitVal(str[1]) ELSE 10 * DigitVal(str[1]) + DigitVal(str[2])

Stop(e, j, codes, v) == [event |-> e, at |-> j, codes |-> codes, val |-> v]

RECURSIVE Reading(_, _, _)
Reading(str, j, codes) ==
  IF j >= Len(str) THEN Stop("end", j, codes, 0)
  ELSE IF At(str, j) = "{"
  THEN LET close == IF Len(str) > j + 2 /\ At(str, j + 2) = "}" THEN j + 2
                    ELSE IF Len(str) > j + 3 /\ At(str, j + 3) = "}" THEN j + 3
                    ELSE -1
       IN IF close = -1 THEN Stop("missing_brace", j, codes, 0)
          ELSE IF ~AllDigits(Slice(str, j + 1, close)) THEN Stop("not_digits", j, codes, 0)
          ELSE IF Decimal(Slice(str, j + 1, close)) \notin ValidCodes
               THEN Stop("bad_code", j, codes, Decimal(Slice(str, j + 1, close)))
          ELSE Reading(str, close + 1, Append(codes, Decimal(Slice(str, j + 1, close))))
  ELSE IF InAlphabet(At(str, j))
  THEN Reading(str, j + 1, Append(codes, CHARMAP[UpperChar(At(str, j))[1]]))
  ELSE Stop("bad_char", j, codes, 0)

ReadingOf(str) == Reading(str, 0, << >>)

Ok == result.status = "ok"

Failed == result.status = "error"

\* the rows of a returned value: encode_row returns one row, encode_text a list
ReturnedRows == IF op = "encode_row" THEN << result.value >> ELSE result.value

\* the physical rows of the text, before vertical padding and truncation
PhysicalRows == LinesLoop(splitlines(s), << >>, align, margin, fill, breaks)

FillRow == Repeat(fill, COLS)

(***************************************************************************)
(* Claims about encode_row and encode_text, under SpecText.                *)
(***************************************************************************)
\* C1: every row returned by encode_row and every row of the list returned
\* by encode_text, content rows and padding rows alike, has exactly 22
\* entries, whatever the arguments of a call that returns.
C1_RowWidth ==
  (op \in {"encode_row", "encode_text"} /\ Ok) =>
     \A k \in 1..Len(ReturnedRows) : Len(ReturnedRows[k]) = 22

C1_Witness ==
  /\ op = "encode_text" /\ Ok
  /\ margin = 10 /\ valign = "middle" /\ Len(result.value) = ROWS
  /\ \E k \in 1..ROWS : result.value[k] = FillRow
  /\ \E k \in 1..ROWS : result.value[k] # FillRow

\* C2: with the default configuration, a text that produces more physical
\* rows than max_rows makes encode_text fail with TooManyLines, naming the
\* number of lines and the maximum.
C2_TooManyLines ==
  (/\ op = "encode_text" /\ Defaults
   /\ PhysicalRows.status = "ok"
   /\ Len(PhysicalRows.value) > max_rows) =>
     /\ Failed
     /\ result.kind = "TooManyLines"
     /\ result.nums = << Len(PhysicalRows.value), max_rows >>

\* C3: for max_rows >= 1 encode_text returns at most max_rows rows: exactly
\* max_rows for valign top, middle or bottom, and min(N, max_rows) for
\* valign None, N being the number of physical rows of the text.
C3_RowCount ==
  (op = "encode_text" /\ Ok /\ max_rows >= 1) =>
     /\ Len(result.value) <= max_rows
     /\ valign \in {"top", "middle", "bottom"} => Len(result.value) = max_rows
     /\ valign = "None" => Len(result.value) = Min(Len(PhysicalRows.value), max_rows)

C3_Witness ==
  /\ op = "encode_text" /\ Ok
  /\ valign = "None" /\ max_rows = ROWS
  /\ Len(result.value) = 2

\* C4 as stated: every cell of every returned row is a valid character
\* code, whatever integer the caller passes as fill.
C4_ValidCells ==
  (op \in {"encode_row", "encode_text"} /\ Ok) =>
     \A k \in 1..Len(ReturnedRows) :
        \A j \in 1..Len(ReturnedRows[k]) : ReturnedRows[k][j] \in ValidCodes

\* C4 as amended: every cell of every returned row is a valid character
\* code when the fill passed is itself a valid character code.
C4_ValidCellsForValidFill ==
  (op \in {"encode_row", "encode_text"} /\ Ok /\ fill \in ValidCodes) =>
     \A k \in 1..Len(ReturnedRows) :
        \A j \in 1..Len(ReturnedRows[k]) : ReturnedRows[k][j] \in ValidCodes

C4_Witness ==
  /\ op = "encode_text" /\ Ok
  /\ fill = 66
  /\ \E k \in 1..Len(result.value) :
        /\ \E j \in 1..COLS : result.value[k][j] = 1
        /\ \E j \in 1..COLS : result.value[k][j] = 66

(***************************************************************************)
(* Claims about encode, under SpecEncode.                                  *)
(***************************************************************************)
\* C5: every element of a list returned by encode is a valid code (0..71
\* without the unused slots 43, 45, 51, 57, 58, 61), and an escape whose
\* digits spell a value outside that set makes encode fail with an
\* UnsupportedCode error naming the value.
C5_CodesValid ==
  op = "encode" =>
     /\ Ok => \A k \in 1..Len(result.value) : result.value[k] \in ValidCodes
     /\ ReadingOf(s).event = "bad_code" =>
           /\ Failed
           /\ result.kind = "UnsupportedCode"
           /\ result.nums = << ReadingOf(s).val >>

C5_Witness ==
  /\ op = "encode" /\ Failed
  /\ result.kind = "UnsupportedCode"
  /\ result.nums = << 57 >>
  /\ Len(s) = 6

\* C6: for an input made of printable characters and escapes of valid
\* codes, encode returns, in input order, one code per printable character
\* (its map value) and one code per escape (the number it spells); so
\* encode("{N}") = [N] for every valid code N.
C6_OneCodePerToken ==
  (op = "encode" /\ ReadingOf(s).event = "end") =>
     /\ Ok
     /\ result.value = ReadingOf(s).codes

C6_Witness ==
  /\ op = "encode" /\ Ok
  /\ s = << "a", "{", "6", "6", "}", "+" >>
  /\ result.value = << 1, 66, 46 >>

\* C7: when the text between "{" and "}" is not one or two decimal digits,
\* encode fails and returns no codes.
C7_OnlyDigits ==
  (op = "encode" /\ ReadingOf(s).event = "not_digits") => Failed

\* C8: when encode meets "{" at index i of the input and the input has "}"
\* neither at index i+2 nor at index i+3, it fails with a MalformedEscape
\* error naming position i+1 and the brace positions i+2 and i+3.
C8_MissingBrace ==
  (op = "encode" /\ ReadingOf(s).event = "missing_brace") =>
     /\ Failed
     /\ result.kind = "MalformedEscape"
     /\ result.pos = ReadingOf(s).at + 1
     /\ result.nums = << ReadingOf(s).at + 2, ReadingOf(s).at + 3 >>

C8_Witness ==
  /\ op = "encode" /\ Failed
  /\ s = << "{", "9", "9", "9", "}" >>
  /\ result.kind = "MalformedEscape"
  /\ result.pos = 1

\* C9: an input character that is not in the printable alphabet and not
\* consumed by a valid escape makes encode fail with an
\* UnsupportedCharacter error naming the leftmost such character and its
\* 1-based position in the input.
C9_UnsupportedCharacter ==
  (op = "encode" /\ ReadingOf(s).event = "bad_char") =>
     /\ Failed
     /\ result.kind = "UnsupportedCharacter"
     /\ result.char = At(s, ReadingOf(s).at)
     /\ result.pos = ReadingOf(s).at + 1

\* C10: encode(s) and encode(s folded to uppercase) have the same outcome:
\* the same list of codes, or both fail.
C10_CaseInsensitive ==
  op = "encode" =>
     /\ result.status = encode(Upper(s)).status
     /\ Ok => result.value = encode(Upper(s)).value

\* the outcome of encode on a whole input, from the codes of what was read
\* before index off and the outcome r of encode on the input from off on
Continued(codes, r, off) ==
  IF r.status = "ok" THEN Returned(codes \o r.value)
  ELSE IF r.kind = "InvalidLiteral" THEN r
  ELSE Raised(r.kind, r.pos + off, r.char,
              IF r.kind = "MalformedEscape" THEN << r.nums[1] + off, r.nums[2] + off >>
              ELSE r.nums)

\* the places where the reading of the input meets "{"
BraceIndices(str) ==
  {i \in 0..(Len(str) - 1) :
     At(str, i) = "{" /\ ReadingOf(Slice(str, 0, i)).event = "end"}

\* C11: on "{" at index i, a "}" at i+2 makes the escape the single digit
\* at i+1 and scanning resumes at i+3, even when i+3 holds "}" too; only
\* otherwise is the 2-digit form with "}" at i+3 used, resuming at i+4.
C11_OneDigitFirst ==
  op = "encode" =>
     \A i \in BraceIndices(s) :
        LET before == ReadingOf(Slice(s, 0, i)).codes
            one == Len(s) > i + 2 /\ At(s, i + 2) = "}"
            two == ~one /\ Len(s) > i + 3 /\ At(s, i + 3) = "}"
        IN /\ (one /\ IsDigit(At(s, i + 1)) /\ DigitVal(At(s, i + 1)) \in ValidCodes) =>
                result = Continued(Append(before, DigitVal(At(s, i + 1))),
                                   encode(Slice(s, i + 3, Len(s))), i + 3)
           /\ (two /\ AllDigits(Slice(s, i + 1, i + 3))
                   /\ Decimal(Slice(s, i + 1, i + 3)) \in ValidCodes) =>
                result = Continued(Append(before, Decimal(Slice(s, i + 1, i + 3))),
                                   encode(Slice(s, i + 4, Len(s))), i + 4)

C11_Witness ==
  /\ op = "encode" /\ Failed
  /\ s = << "{", "5", "}", "}" >>
  /\ result.kind = "UnsupportedCharacter"
  /\ result.char = "}"
  /\ result.pos = 4

\* the strings a separator is written as: plain, or wrapped in grey on a terminal
WrittenSeparators ==
  Separators \cup {<< "ESC[90m" >> \o sep \o << "ESC[0m" >> : sep \in Separators \ {<< >>}}

\* C12: for every supported printable character c, encode(c) is the one
\* code of c, PRINTABLE at that code is c (upper-cased), pprint of the code
\* writes that glyph, and distinct characters have distinct codes.
C12_PrintableRoundTrip ==
  (s \in PrintableStrings /\ op # "none") =>
     LET glyph == UpperChar(s[1])[1]
     IN /\ \A d \in DOMAIN CHARMAP : d # glyph => CHARMAP[d] # CHARMAP[glyph]
        /\ PRINTABLE[CHARMAP[glyph] + 1] = glyph
        /\ op = "encode" => result = Returned(<< CHARMAP[glyph] >>)
        /\ op = "pprint" =>
              /\ Ok
              /\ \E sep \in WrittenSeparators :
                    result.value = sep \o << glyph >> \o sep \o << "LF" >>

C12_Witness ==
  /\ op = "pprint" /\ Ok
  /\ s = << "q" >>
  /\ result.value = << "|", "Q", "|", "LF" >>

\* C13: encode_row fails with LengthExceeded, naming the count and COLS,
\* exactly when the text encodes to more than COLS codes (an escape counts
\* as one code); the check comes before the alignment, so no row is
\* returned whatever the alignment, and COLS codes or fewer are accepted.
C13_LengthExceeded ==
  op = "encode_row" =>
     LET r == ReadingOf(s)
         n == Len(r.codes)
     IN /\ result.kind = "LengthExceeded" <=> (r.event = "end" /\ n > COLS)
        /\ (r.event = "end" /\ n > COLS) => result = LengthExceeded(n)
        /\ (r.event = "end" /\ n <= COLS /\ align \in {"left", "center", "right"}) => Ok

C13_Witness ==
  /\ op = "encode_row"
  /\ s = Rep(<< "a" >>, 22) \o << "{", "1", "0", "}" >>
  /\ align = "unknown"
  /\ result.kind = "LengthExceeded"
  /\ result.nums = << 23, COLS >>

\* the row that holds content from cell offset + 1 on and fl everywhere else
Laid(content, offset, fl) ==
  [k \in 1..COLS |->
     IF offset < k /\ k <= offset + Len(content) THEN content[k - offset] ELSE fl]

\* C14: for content of n <= 22 codes and fill f, encode_row returns the
\* content followed by 22-n copies of f for left, 22-n copies of f followed
\* by the content for right, and floor((22-n)/2) copies of f, the content
\* and ceil((22-n)/2) copies of f for center; the content is contiguous,
\* in order and unchanged.
C14_RowLayout ==
  (op = "encode_row" /\ ReadingOf(s).event = "end" /\ Len(ReadingOf(s).codes) <= 22
     /\ align \in {"left", "center", "right"}) =>
     LET content == ReadingOf(s).codes
         n == Len(content)
         offset == CASE align = "left" -> 0
                     [] align = "right" -> 22 - n
                     [] align = "center" -> (22 - n) \div 2
     IN result = Returned(Laid(content, offset, fill))

C14_Witness ==
  /\ op = "encode_row" /\ Ok
  /\ align = "center"
  /\ fill = 66
  /\ s = << "a", " ", "a" >>
  /\ result.value = Repeat(66, 9) \o << 1, 0, 1 >> \o Repeat(66, 10)

\* every line of the text is made of printable characters and valid escapes
LinesEncode(str) ==
  \A k \in 1..Len(splitlines(str)) : ReadingOf(splitlines(str)[k]).event = "end"

\* C15: encode_row and encode_text fail with UnknownAlignment, naming the
\* mode, whenever align is not left, center or right, for every text of
\* zero or more lines that encodes and fits.
C15_UnknownAlignment ==
  /\ (op = "encode_row" /\ align \notin {"left", "center", "right"}
        /\ ReadingOf(s).event = "end" /\ Len(ReadingOf(s).codes) <= COLS) =>
       result = UnknownAlignment(align)
  /\ (op = "encode_text" /\ align \notin {"left", "center", "right"}
        /\ LinesEncode(s) /\ margin \in 0..10) =>
       result = UnknownAlignment(align)

\* C16: encode_text fails with UnknownVerticalAlignment whenever valign is
\* a token other than top, middle, bottom or None, for every text whose
\* rows can be computed and every max_rows, whatever the number of rows.
C16_UnknownVerticalAlignment ==
  (op = "encode_text" /\ valign \notin {"top", "middle", "bottom", "None"}
     /\ PhysicalRows.status = "ok") =>
     result = UnknownVerticalAlignment(valign)

\* C17: a text of N < max_rows physical rows (max_rows >= 1) is returned as
\* max_rows rows: the N content rows, contiguous and in order, and
\* max_rows - N rows of fill, all after the content for top, all before it
\* for bottom, floor((max_rows-N)/2) before and the rest after for middle.
C17_VerticalPadding ==
  (op = "encode_text" /\ PhysicalRows.status = "ok" /\ max_rows >= 1
     /\ Len(PhysicalRows.value) < max_rows
     /\ valign \in {"top", "middle", "bottom"}) =>
     LET content == PhysicalRows.value
         N == Len(content)
         before == CASE valign = "top" -> 0
                     [] valign = "bottom" -> max_rows - N
                     [] valign = "middle" -> (max_rows - N) \div 2
     IN /\ Ok
        /\ Len(result.value) = max_rows
        /\ \A k \in 1..max_rows :
              result.value[k] = IF before < k /\ k <= before + N
                                THEN content[k - before] ELSE FillRow

C17_Witness ==
  /\ op = "encode_text" /\ Ok
  /\ s = << "a", "LF", "b", "LF", "c" >>
  /\ valign = "middle" /\ max_rows = 6 /\ fill = 66 /\ margin = 0 /\ align = "left"
  /\ result.value[1] = FillRow
  /\ result.value[2] = << 1 >> \o Repeat(66, 21)
  /\ result.value[4] = << 3 >> \o Repeat(66, 21)
  /\ result.value[5] = FillRow

\* the pieces a line of codes is cut into for a usable width W >= 1: while
\* it is longer than W, cut before the break code nearest to position W
\* (positions W down to 1) and drop that code, or cut at W when there is none
RECURSIVE Pieces(_, _, _)
Pieces(line, W, brk) ==
  IF Len(line) <= W THEN << line >>
  ELSE LET at == {p \in 1..W : line[p + 1] \in brk}
       IN IF at = {}
          THEN << SubSeq(line, 1, W) >> \o Pieces(SubSeq(line, W + 1, Len(line)), W, brk)
          ELSE LET p == CHOOSE q \in at : \A r \in at : r <= q
               IN << SubSeq(line, 1, p) >> \o Pieces(SubSeq(line, p + 2, Len(line)), W, brk)

RECURSIVE AllPieces(_, _, _)
AllPieces(lines, W, brk) ==
  IF lines = << >> THEN << >>
  ELSE Pieces(ReadingOf(Head(lines)).codes, W, brk) \o AllPieces(Tail(lines), W, brk)

\* the row of a piece under an alignment and a margin
RowOf(piece, al, mg, fl) ==
  Laid(piece,
       CASE al = "left" -> mg
         [] al = "right" -> COLS - Len(piece) - mg
         [] al = "center" -> (COLS - Len(piece)) \div 2,
       fl)

\* C18: a line longer than W = COLS - 2*margin is broken repeatedly: at the
\* break code nearest to position W scanning backward (codes [0, p) make a
\* row, the break code is dropped, the rest starts at p+1), or at W with
\* nothing dropped when no position in range holds a break code.  Ten
\* 4-letter words joined by single spaces make rows of 4, 4 and 2 words.
C18_Wrapping ==
  (op = "encode_text" /\ LinesEncode(s) /\ margin \in 0..10
     /\ align \in {"left", "center", "right"}
     /\ (max_rows = 0 \/ valign \in {"top", "None"})) =>
     LET pieces == AllPieces(splitlines(s), COLS - 2 * margin, breaks)
         kept == IF max_rows = 0 THEN Len(pieces) ELSE Min(Len(pieces), max_rows)
     IN /\ Ok
        /\ Len(result.value) >= kept
        /\ max_rows = 0 => Len(result.value) = kept
        /\ \A k \in 1..kept : result.value[k] = RowOf(pieces[k], align, margin, fill)

C18_Witness ==
  /\ op = "encode_text" /\ Ok
  /\ s = Rep(Word \o << " " >>, 9) \o Word
  /\ align = "left" /\ margin = 0 /\ fill = 0 /\ breaks = {0} /\ max_rows = ROWS
  /\ valign = "top"
  /\ result.value[1] = << 23, 15, 18, 4, 0, 23, 15, 18, 4, 0, 23, 15, 18, 4, 0,
                          23, 15, 18, 4, 0, 0, 0 >>
  /\ result.value[3] = << 23, 15, 18, 4, 0, 23, 15, 18, 4 >> \o Repeat(0, 13)
  /\ result.value[4] = FillRow

\* C19: for a margin m in 0..10 and each of left, center and right, every
\* row encode_text returns has the fill code in its first m and last m
\* cells, so it holds at most COLS - 2*m content codes.
C19_Margins ==
  (op = "encode_text" /\ Ok /\ margin \in 0..10
     /\ align \in {"left", "center", "right"}) =>
     \A k \in 1..Len(result.value) :
        LET row == result.value[k]
        IN /\ Len(row) = COLS
           /\ \A c \in 1..margin : row[c] = fill /\ row[COLS + 1 - c] = fill
           /\ Cardinality({c \in 1..COLS : row[c] # fill}) <= COLS - 2 * margin

C19_Witness ==
  /\ op = "encode_text" /\ Ok
  /\ s = Rep(<< "a" >>, COLS)
  /\ margin = 1 /\ fill = 66 /\ align = "left" /\ max_rows = ROWS /\ valign = "top"
  /\ result.value[1] = << 66 >> \o Repeat(1, 20) \o << 66 >>
  /\ result.value[2] = << 66, 1, 1 >> \o Repeat(66, 19)

\* C20: with max_rows = 0 encode_text returns exactly the physical rows of
\* the text, in order, with no padding row added and no row dropped, for
\* every valign.
C20_Unlimited ==
  (op = "encode_text" /\ max_rows = 0) =>
     /\ result = PhysicalRows
     /\ (LinesEncode(s) /\ margin \in 0..10 /\ align \in {"left", "center", "right"}) =>
           /\ Ok
           /\ Len(result.value) = Len(AllPieces(splitlines(s), COLS - 2 * margin, breaks))

C20_Witness ==
  /\ op = "encode_text" /\ Ok
  /\ max_rows = 0
  /\ valign = "bottom"
  /\ s = Rep(<< "a", "LF" >>, ROWS + 1)
  /\ Len(result.value) = ROWS + 1
  /\ \A k \in 1..(ROWS + 1) : result.value[k] # FillRow

\* what pprint writes for one cell: the glyph at a position of PRINTABLE,
\* or the block glyph (in its colour on a terminal) for a Color
Rendered(code, colors) ==
  IF code \in 0..62 THEN << PRINTABLE[code + 1] >>
  ELSE IF colors THEN << Ansi[code], "block", "ESC[0m" >> ELSE << "block" >>

\* the cells of a row from cell k on, each followed by the separator
RECURSIVE CellsThen(_, _, _, _)
CellsThen(row, k, sep, colors) ==
  IF k > Len(row) THEN << >>
  ELSE Rendered(row[k], colors) \o sep \o CellsThen(row, k + 1, sep, colors)

\* one line per row from row k on: the separator, the cells each followed
\* by the separator (two separators for a row without cells), a line feed
RECURSIVE LinesFrom(_, _, _, _)
LinesFrom(rows, k, sep, colors) ==
  IF k > Len(rows) THEN << >>
  ELSE sep \o (IF rows[k] = << >> THEN sep ELSE CellsThen(rows[k], 1, sep, colors))
           \o << "LF" >> \o LinesFrom(rows, k + 1, sep, colors)

\* the cells of a grid in the order pprint meets them
RECURSIVE Flat(_)
Flat(rows) == IF rows = << >> THEN << >> ELSE Head(rows) \o Flat(Tail(rows))

Renderable(code) == code \in 0..62 \/ code \in {63, 64, 65, 66, 67, 68, 69, 70, 71}

\* C21: pprint writes one line per row, the symbols of its cells joined by
\* the separator and framed by it at both ends; a single Row is a grid of
\* one row; a code in the range of the printable map is written as its
\* glyph, a Color as the block glyph, and any other value makes pprint fail
\* with UnknownCharacterCode.
C21_Pprint ==
  op = "pprint_data" =>
     LET rows == argument.value
         cells == Flat(rows)
         bad == {k \in 1..Len(cells) : ~Renderable(cells[k])}
     IN IF bad = {}
        THEN /\ Ok
             /\ \E isatty \in BOOLEAN, sep \in Separators :
                   result.value =
                     LinesFrom(rows, 1,
                               IF isatty /\ sep # << >>
                               THEN << "ESC[90m" >> \o sep \o << "ESC[0m" >> ELSE sep,
                               isatty)
        ELSE result = UnknownCharacterCode(cells[CHOOSE k \in bad : \A j \in bad : k <= j])

C21_Witness ==
  /\ op = "pprint_data" /\ Ok
  /\ argument = RowsObject(<< << 1 >>, << 63, 1 >> >>)
  /\ result.value = << "|", "A", "|", "LF", "|", "block", "|", "A", "|", "LF" >>

\* a list of exactly ROWS rows of exactly COLS entries each
WellSized(message) ==
  /\ message.type = "rows"
  /\ Len(message.value) = 6
  /\ \A k \in 1..Len(message.value) : Len(message.value[k]) = 22

\* C22: Client.post_message, ReadWriteClient.write_message and
\* LocalClient.write_message on an enabled client accept a list only if it
\* has exactly 6 rows of exactly 22 entries each and otherwise raise
\* ValueError; the first two raise TypeError for a message that is neither
\* a string nor a list; in each of these error cases no request is sent.
C22_MessageChecks ==
  [][LET message == argument'
     IN /\ ((op' \in {"post_message", "rw_write_message"}
               \/ (op' = "write_message" /\ api_key # "None"))
              /\ message.type \in {"row", "rows"}) =>
             IF WellSized(message)
             THEN result'.kind # "ValueError" /\ Len(requests') = Len(requests) + 1
             ELSE result' = BadDimensions /\ requests' = requests
        /\ (op' \in {"post_message", "rw_write_message"} /\ message.type = "other") =>
             (result'.kind = "TypeError" /\ requests' = requests)]_vars

C22_Witness ==
  /\ op = "write_message"
  /\ api_key = "key"
  /\ argument = RowsObject(Blank(ROWS, COLS - 1))
  /\ result = BadDimensions
  /\ requests = << >>
  /\ calls = 1

\* C23: LocalClient.read_message and LocalClient.write_message raise
\* RuntimeError ("Local API has not been enabled") whenever no API key has
\* been set; the check comes before the check of the message, whatever its
\* size, and no request is sent.
C23_NotEnabled ==
  [][(op' \in {"read_message", "write_message"} /\ calls' = calls + 1
        /\ api_key = "None") =>
       /\ result' = NotEnabled
       /\ result'.kind = "RuntimeError"
       /\ requests' = requests
       /\ api_key' = "None"]_vars

C23_Witness ==
  /\ op = "write_message"
  /\ api_key = "None"
  /\ argument = RowObject(<< >>)
  /\ result.kind = "RuntimeError"
  /\ result.char = "Local API has not been enabled"
  /\ requests = << >>

\* the answer carries a key: a JSON object with a non-empty "apiKey"
CarriesKey(resp) == resp.body = "json" /\ resp.key \notin {"None", ""}

\* C24: LocalClient.enable returns the key of a successful enablement
\* response and sets api_key to it (enabled becomes true); for an empty or
\* non-JSON body it returns None and leaves api_key unchanged; when the
\* request fails it raises and leaves api_key unchanged.
C24_Enable ==
  [][(op' = "enable" /\ calls' = calls + 1) =>
       /\ Len(requests') = Len(requests) + 1
       /\ (response'.status \in {"200", "201"} /\ CarriesKey(response')) =>
             /\ result' = Returned(<< response'.key >>)
             /\ api_key' = response'.key
             /\ api_key' # "None"
       /\ (response'.status \in {"200", "201"} /\ response'.body \in {"empty", "not_json"}) =>
             /\ result' = Returned(<< "None" >>)
             /\ api_key' = api_key
       /\ response'.status \in {"unreachable", "500"} =>
             /\ result'.status = "error"
             /\ api_key' = api_key]_vars

C24_Witness ==
  /\ op = "enable" /\ Ok
  /\ calls = 1
  /\ response.key = "key2"
  /\ result.value = << "key2" >>
  /\ api_key = "key2"

\* C28: once a LocalClient has a key it keeps one through every enable,
\* read_message and write_message call, whatever the answers: no call
\* clears the key, and an enable whose response carries no key keeps the
\* key there was.
C28_StaysEnabled ==
  [][api_key # "None" =>
       /\ api_key' # "None"
       /\ (op' # "enable" \/ ~CarriesKey(response')) => api_key' = api_key]_vars

C28_Witness ==
  /\ op = "enable" /\ Ok
  /\ calls = MaxCalls
  /\ response.status = "200" /\ response.body = "empty"
  /\ result.value = << "None" >>
  /\ api_key = "key2"

\* C25: encode_text terminates for every text and every integer margin:
\* each iteration of the wrapping loop strictly shortens what is left of
\* the line, also when COLS - 2*margin is zero or negative (margin >= 11).
C25_LoopShortens ==
  [][(pc = "loop" /\ pc' = "loop") => Len(remaining') < Len(remaining)]_vars

\* the codes of the rows cut so far, each followed by the codes skipped
\* after it
RECURSIVE Rejoined(_)
Rejoined(pieces) ==
  IF pieces = << >> THEN << >>
  ELSE Head(pieces).content \o Head(pieces).dropped \o Rejoined(Tail(pieces))

\* C26: for every encoded line and every margin in 0..10, the contents of
\* the rows made from the line, with each discarded code put back at its
\* break, are the encoded line: nothing is duplicated, reordered or
\* dropped, at most one code is discarded per break and every discarded
\* code is in the break set.
C26_NothingLost ==
  (pc \in {"loop", "done"} /\ margin \in 0..10) =>
     /\ Rejoined(cut) \o remaining = ReadingOf(s).codes
     /\ \A k \in 1..Len(cut) :
           /\ cut[k].row = RowOf(cut[k].content, align, margin, fill)
           /\ Len(cut[k].dropped) <= 1
           /\ \A i \in 1..Len(cut[k].dropped) : cut[k].dropped[i] \in breaks
     /\ pc = "done" => result.value = [k \in 1..Len(cut) |-> cut[k].row]

C26_Witness ==
  /\ pc = "done" /\ Ok
  /\ margin = 0 /\ breaks = {0} /\ align = "left"
  /\ s = Rep(Word \o << " " >>, 5) \o Word
  /\ Len(cut) = 2
  /\ cut[1].dropped = << 0 >>
  /\ cut[2].content = << 23, 15, 18, 4, 0, 23, 15, 18, 4 >>

\* C27: wrapping a line longer than the usable width never makes a row
\* without content: every row made from the line, the last one included,
\* holds at least one code of the line.
C27_NoEmptyRow ==
  (pc \in {"loop", "done"} /\ margin \in 0..10
     /\ Len(ReadingOf(s).codes) > COLS - 2 * margin) =>
     \A k \in 1..Len(cut) : cut[k].content # << >>

\* C29: the rows of a grid returned by encode_text are independent values:
\* changing a cell of one returned row leaves every other row of the grid
\* as it was returned, the fill rows of the vertical padding included.
C29_IndependentRows ==
  touched # 0 =>
     \A j \in 1..Len(grid) : j # touched => heap[grid[j]] = result.value[j]

\* C30: pprint and encode agree on which integers are character codes:
\* pprint renders a one-cell row holding n without error exactly when
\* encode accepts the escape {n}, and otherwise pprint fails with an
\* unknown character code where encode fails with an unsupported one.
C30_SameCodes ==
  (op = "pprint_data" /\ argument.type = "row" /\ Len(ValueOf(argument)) = 1) =>
     LET n == ValueOf(argument)[1]
         escape == encode(<< "{" >> \o DecimalString(n) \o << "}" >>)
     IN n \in 0..99 =>
          /\ Ok <=> escape.status = "ok"
          /\ Failed => /\ result = UnknownCharacterCode(n)
                       /\ escape = UnsupportedCode(0, n)

====
